---- MODULE Spec2Model ----
(***************************************************************************)
(* A model of helium10-mcp-server/improved_llm_example.py: the script's    *)
(* entry point (lines 52-64) and its two runners, use_pipeline (5-18) and  *)
(* use_direct_model (25-49).                                               *)
(*                                                                         *)
(* The transformers / torch library is the environment.  What each library *)
(* call does in one execution (returns, or raises some exception) is drawn *)
(* in Init: pipe_env for the calls use_pipeline makes, direct_env for the  *)
(* calls use_direct_model makes.  Python's exception classes are split the *)
(* way line 58 and line 63 split them: instances of Exception, and         *)
(* instances of BaseException only (KeyboardInterrupt, SystemExit).        *)
(* Writing to standard output is taken to succeed.                         *)
(*                                                                         *)
(* out, calls and events are the observable history of one execution: the  *)
(* lines printed, the library calls made (with their arguments), and the   *)
(* runner invocations with how each ended.                                 *)
(***************************************************************************)
EXTENDS Integers, Sequences, FiniteSets, TLC

VARIABLES
    pc,             \* the line the script is about to execute
    out,            \* standard output: the lines printed, with the frame that printed
    calls,          \* the library calls made so far, in order
    events,         \* runner invocations and how they ended
    grad_enabled,   \* torch's process-wide gradient mode
    no_grad_prev,   \* the mode torch.no_grad() saved on entry (line 37)
    exc,            \* the exception in flight, <<>> when none
    pipe,           \* use_pipeline's local pipe
    result,         \* use_pipeline's local result
    tokenizer,      \* use_direct_model's local tokenizer
    model,          \* use_direct_model's local model
    inputs,         \* use_direct_model's local inputs
    output,         \* use_direct_model's local output
    generated_text, \* use_direct_model's local generated_text
    pipe_env,       \* what the library does for use_pipeline in this execution
    direct_env,     \* what the library does for use_direct_model in this execution
    round,          \* 1 in the first execution, 2 in a second one (SpecPair)
    saved           \* what use_direct_model did in the first execution (SpecPair)

vars == <<pc, out, calls, events, grad_enabled, no_grad_prev, exc, pipe, result,
          tokenizer, model, inputs, output, generated_text, pipe_env, direct_env,
          round, saved>>

locals == <<pipe, result, tokenizer, model, inputs, output, generated_text>>

(***************************************************************************)
(* Bounds of the model.                                                    *)
(***************************************************************************)
\* the longest result list the pipeline callable returns
MaxCandidates == 2
\* the largest eos_token_id a tokenizer carries
MaxEos == 2

(***************************************************************************)
(* Literals of the source.                                                 *)
(***************************************************************************)
PipelineModelId == "unsloth/DeepSeek-R1-Distill-Llama-8B"
\* a variant of line 29 that names another model
TokenizerModelIdWrong == "unsloth/DeepSeek-R1-Distill-Qwen-7B"
TokenizerModelId == "unsloth/DeepSeek-R1-Distill-Llama-8B"
CausalLMModelId == "unsloth/DeepSeek-R1-Distill-Llama-8B"

messages == << [role |-> "user", content |-> "Who are you?"] >>
prompt == "Who are you?"

PipelineGenKwargs ==
    [max_length |-> 100, do_sample |-> TRUE, temperature |-> "0.7"]

\* a variant of lines 40-43 that pads with token 0 instead of the eos id
DirectGenKwargsNoPad(eos) ==
    [max_length |-> 100, do_sample |-> TRUE, temperature |-> "0.7",
     pad_token_id |-> 0]
DirectGenKwargs(eos) ==
    [max_length |-> 100, do_sample |-> TRUE, temperature |-> "0.7",
     pad_token_id |-> eos]

(***************************************************************************)
(* Python values and exceptions.                                           *)
(***************************************************************************)
\* a value the library may put under 'generated_text': a str, or a list
\* (the chat form); val is its text, resp. the text of its elements
Values == { [type |-> "str",  val |-> "I am an assistant."],
            [type |-> "str",  val |-> "Hello!"],
            [type |-> "list", val |-> "{'role': 'assistant'}"] }

\* str(v), which print applies to its arguments
Str(v) == IF v.type = "str" THEN v.val ELSE "[" \o v.val \o "]"

\* one element of the pipeline's result: a dict with or without the key
Candidates == { [generated_text |-> v] : v \in Values } \cup { [score |-> 0] }

Results == UNION { [1..n -> Candidates] : n \in 0..MaxCandidates }

ExcClasses == {"Exception", "KeyboardInterrupt"}
Excs == { [cls |-> c, msg |-> m] : c \in ExcClasses,
                                    m \in {"connection refused", "out of memory"} }

IndexError == [cls |-> "Exception", msg |-> "list index out of range"]
KeyError == [cls |-> "Exception", msg |-> "'generated_text'"]

\* a variant of the except clauses that matches nothing
IsExceptionNone(e) == FALSE
\* `except Exception` (lines 58 and 63): whether the clause matches e
IsException(e) == e.cls = "Exception"

(***************************************************************************)
(* The environment of one execution.                                       *)
(***************************************************************************)
PipeFailPoints == {"pipeline", "pipe"}
DirectFailPoints == {"AutoTokenizer.from_pretrained",
                     "AutoModelForCausalLM.from_pretrained",
                     "tokenizer", "inputs[input_ids]", "tokenizer.eos_token_id",
                     "model.generate", "tokenizer.decode"}

NoExc == [cls |-> "Exception", msg |-> "connection refused"]

PipeEnvs ==
    { [fail_at |-> "none", exc |-> NoExc, result |-> r] : r \in Results }
    \cup { [fail_at |-> f, exc |-> e, result |-> <<>>] :
             f \in PipeFailPoints, e \in Excs }

InputIds == { <<128000, 15546>>, <<128000>> }
Outputs == { <<>>, << <<128000, 15546, 40>> >> }
Texts == { "Who are you? I am an assistant.", "" }

DirectEnvs ==
    { [fail_at |-> "none", exc |-> NoExc, eos |-> n, input_ids |-> i,
       output |-> o, text |-> t] :
         n \in 0..MaxEos, i \in InputIds, o \in Outputs, t \in Texts }
    \cup { [fail_at |-> f, exc |-> e, eos |-> n, input_ids |-> i,
            output |-> << <<128000, 15546, 40>> >>, text |-> ""] :
         f \in DirectFailPoints, e \in Excs, n \in 0..MaxEos, i \in InputIds }

(***************************************************************************)
(* Helpers: printing, calling, raising.                                    *)
(***************************************************************************)
Frame ==
    IF pc \in {"L6", "L10", "L13", "L16", "L17", "L18"} THEN "use_pipeline"
    ELSE IF pc \in {"L26", "L29", "L30", "L34", "L37", "L38", "L37_exit",
                    "L47", "L48", "L49"} THEN "use_direct_model"
    ELSE "main"

\* print(text)
print(text) == out' = Append(out, [by |-> Frame, text |-> text])

Call(fn, args, kwargs) ==
    [by |-> Frame, fn |-> fn, args |-> args, kwargs |-> kwargs,
     grad |-> grad_enabled]

Event(who, what, e) == [who |-> who, what |-> what, exc |-> e]

ClearLocals ==
    /\ pipe' = <<>>
    /\ result' = <<>>
    /\ tokenizer' = <<>>
    /\ model' = <<>>
    /\ inputs' = <<>>
    /\ output' = <<>>
    /\ generated_text' = <<>>

\* the handler an exception leaving the current runner reaches
HandlerOf(frame) == IF frame = "use_pipeline" THEN "L58" ELSE "L63"

\* a variant of Raise: the runner catches the exception itself and returns
RaiseSwallowed(e) ==
    /\ exc' = <<>>
    /\ events' = Append(events, Event(Frame, "return", <<>>))
    /\ pc' = IF Frame = "use_pipeline" THEN "L62" ELSE "done"
    /\ ClearLocals

\* an exception raised in a runner, outside any with block: the frame is
\* left and control reaches the try statement around the call
Raise(e) ==
    /\ exc' = <<e>>
    /\ events' = Append(events, Event(Frame, "raise", <<e>>))
    /\ pc' = HandlerOf(Frame)
    /\ ClearLocals

Init ==
    /\ pc = "L53"
    /\ out = <<>>
    /\ calls = <<>>
    /\ events = <<>>
    /\ grad_enabled = TRUE
    /\ no_grad_prev = <<>>
    /\ exc = <<>>
    /\ pipe = <<>>
    /\ result = <<>>
    /\ tokenizer = <<>>
    /\ model = <<>>
    /\ inputs = <<>>
    /\ output = <<>>
    /\ generated_text = <<>>
    /\ pipe_env \in PipeEnvs
    /\ direct_env \in DirectEnvs
    /\ round = 1
    /\ saved = <<>>

env_vars == <<pipe_env, direct_env, round, saved>>

(***************************************************************************)
(* The entry point, lines 52-64.                                           *)
(***************************************************************************)
main_L53 ==
    /\ pc = "L53"
    /\ print("LLM-Beispiel mit DeepSeek-R1-Distill-Llama-8B\n")
    /\ pc' = "L57"
    /\ UNCHANGED <<calls, events, grad_enabled, no_grad_prev, exc, locals, env_vars>>

main_L57 ==
    /\ pc = "L57"
    /\ events' = Append(events, Event("use_pipeline", "call", <<>>))
    /\ pc' = "L6"
    /\ UNCHANGED <<out, calls, grad_enabled, no_grad_prev, exc, locals, env_vars>>

\* the prefixes of the two failure messages (lines 59 and 64)
PipelineErrorPrefix == "Fehler beim Pipeline-Ansatz: "
\* a variant of line 64 with the prefix of line 59
DirectErrorPrefixCopied == "Fehler beim Pipeline-Ansatz: "
DirectErrorPrefix == "Fehler beim direkten Modell-Ansatz: "

\* a variant in which the script ends after the first try statement
AfterFirstTrySkip == "done"
\* where control goes after the first try statement (lines 56-59)
AfterFirstTry == "L62"

\* except Exception as e: print(f"Fehler beim Pipeline-Ansatz: {e}")
main_L58 ==
    /\ pc = "L58"
    /\ IF IsException(exc[1])
       THEN /\ print(PipelineErrorPrefix \o exc[1].msg)
            /\ exc' = <<>>
            /\ pc' = AfterFirstTry
       ELSE /\ pc' = "raised"
            /\ UNCHANGED <<out, exc>>
    /\ UNCHANGED <<calls, events, grad_enabled, no_grad_prev, locals, env_vars>>

main_L62 ==
    /\ pc = "L62"
    /\ events' = Append(events, Event("use_direct_model", "call", <<>>))
    /\ pc' = "L26"
    /\ UNCHANGED <<out, calls, grad_enabled, no_grad_prev, exc, locals, env_vars>>

\* except Exception as e: print(f"Fehler beim direkten Modell-Ansatz: {e}")
main_L63 ==
    /\ pc = "L63"
    /\ IF IsException(exc[1])
       THEN /\ print(DirectErrorPrefix \o exc[1].msg)
            /\ exc' = <<>>
            /\ pc' = "done"
       ELSE /\ pc' = "raised"
            /\ UNCHANGED <<out, exc>>
    /\ UNCHANGED <<calls, events, grad_enabled, no_grad_prev, locals, env_vars>>

(***************************************************************************)
(* use_pipeline, lines 5-18.                                               *)
(***************************************************************************)
use_pipeline_L6 ==
    /\ pc = "L6"
    /\ print("=== Pipeline-Ansatz ===")
    /\ pc' = "L10"
    /\ UNCHANGED <<calls, events, grad_enabled, no_grad_prev, exc, locals, env_vars>>

\* pipe = pipeline("text-generation", model=...)
use_pipeline_L10 ==
    /\ pc = "L10"
    /\ calls' = Append(calls, Call("pipeline", <<"text-generation">>,
                                   [model |-> PipelineModelId]))
    /\ IF pipe_env.fail_at = "pipeline"
       THEN Raise(pipe_env.exc)
       ELSE /\ pipe' = <<PipelineModelId>>
            /\ pc' = "L13"
            /\ UNCHANGED <<events, exc, result, tokenizer, model, inputs, output,
                           generated_text>>
    /\ UNCHANGED <<out, grad_enabled, no_grad_prev, env_vars>>

\* result = pipe(messages, max_length=100, do_sample=True, temperature=0.7)
use_pipeline_L13 ==
    /\ pc = "L13"
    /\ calls' = Append(calls, Call("pipe", <<messages>>, PipelineGenKwargs))
    /\ IF pipe_env.fail_at = "pipe"
       THEN Raise(pipe_env.exc)
       ELSE /\ result' = <<pipe_env.result>>
            /\ pc' = "L16"
            /\ UNCHANGED <<events, exc, pipe, tokenizer, model, inputs, output,
                           generated_text>>
    /\ UNCHANGED <<out, grad_enabled, no_grad_prev, env_vars>>

use_pipeline_L16 ==
    /\ pc = "L16"
    /\ print("Ergebnis:")
    /\ pc' = "L17"
    /\ UNCHANGED <<calls, events, grad_enabled, no_grad_prev, exc, locals, env_vars>>

\* a variant of line 17 that reads result[-1]
PrintedCandidateLast(r) == Len(r)
\* the index of the candidate line 17 reads: result[0]
PrintedCandidate(r) == 1

\* print(result[0]['generated_text'])
use_pipeline_L17 ==
    /\ pc = "L17"
    /\ IF Len(result[1]) = 0
       THEN Raise(IndexError) /\ UNCHANGED out
       ELSE IF "generated_text" \notin DOMAIN result[1][PrintedCandidate(result[1])]
       THEN Raise(KeyError) /\ UNCHANGED out
       ELSE /\ print(Str(result[1][PrintedCandidate(result[1])].generated_text))
            /\ pc' = "L18"
            /\ UNCHANGED <<events, exc, locals>>
    /\ UNCHANGED <<calls, grad_enabled, no_grad_prev, env_vars>>

\* print("\n"), and the runner returns
use_pipeline_L18 ==
    /\ pc = "L18"
    /\ print("\n")
    /\ events' = Append(events, Event("use_pipeline", "return", <<>>))
    /\ ClearLocals
    /\ pc' = AfterFirstTry
    /\ UNCHANGED <<calls, grad_enabled, no_grad_prev, exc, env_vars>>

(***************************************************************************)
(* use_direct_model, lines 25-49.                                          *)
(***************************************************************************)
use_direct_model_L26 ==
    /\ pc = "L26"
    /\ print("=== Direkter Modell-Ansatz ===")
    /\ pc' = "L29"
    /\ UNCHANGED <<calls, events, grad_enabled, no_grad_prev, exc, locals, env_vars>>

\* tokenizer = AutoTokenizer.from_pretrained(...)
use_direct_model_L29 ==
    /\ pc = "L29"
    /\ calls' = Append(calls, Call("AutoTokenizer.from_pretrained",
                                   <<TokenizerModelId>>, <<>>))
    /\ IF direct_env.fail_at = "AutoTokenizer.from_pretrained"
       THEN Raise(direct_env.exc)
       ELSE /\ tokenizer' = << [eos_token_id |-> direct_env.eos] >>
            /\ pc' = "L30"
            /\ UNCHANGED <<events, exc, pipe, result, model, inputs, output,
                           generated_text>>
    /\ UNCHANGED <<out, grad_enabled, no_grad_prev, env_vars>>

\* model = AutoModelForCausalLM.from_pretrained(...)
use_direct_model_L30 ==
    /\ pc = "L30"
    /\ calls' = Append(calls, Call("AutoModelForCausalLM.from_pretrained",
                                   <<CausalLMModelId>>, <<>>))
    /\ IF direct_env.fail_at = "AutoModelForCausalLM.from_pretrained"
       THEN Raise(direct_env.exc)
       ELSE /\ model' = <<CausalLMModelId>>
            /\ pc' = "L34"
            /\ UNCHANGED <<events, exc, pipe, result, tokenizer, inputs, output,
                           generated_text>>
    /\ UNCHANGED <<out, grad_enabled, no_grad_prev, env_vars>>

\* prompt = "Who are you?"; inputs = tokenizer(prompt, return_tensors="pt")
use_direct_model_L34 ==
    /\ pc = "L34"
    /\ calls' = Append(calls, Call("tokenizer", <<prompt>>,
                                   [return_tensors |-> "pt"]))
    /\ IF direct_env.fail_at = "tokenizer"
       THEN Raise(direct_env.exc)
       ELSE /\ inputs' = << [input_ids |-> direct_env.input_ids] >>
            /\ pc' = "L37"
            /\ UNCHANGED <<events, exc, pipe, result, tokenizer, model, output,
                           generated_text>>
    /\ UNCHANGED <<out, grad_enabled, no_grad_prev, env_vars>>

\* with torch.no_grad(): the mode is saved and gradient tracking disabled
use_direct_model_L37 ==
    /\ pc = "L37"
    /\ no_grad_prev' = <<grad_enabled>>
    /\ grad_enabled' = FALSE
    /\ pc' = "L38"
    /\ UNCHANGED <<out, calls, events, exc, locals, env_vars>>

\* output = model.generate(inputs["input_ids"], max_length=100, do_sample=True,
\*                         temperature=0.7, pad_token_id=tokenizer.eos_token_id)
\* The arguments are evaluated first; whatever raises, the with block is left
\* through its exit.
use_direct_model_L38 ==
    /\ pc = "L38"
    /\ IF direct_env.fail_at \in {"inputs[input_ids]", "tokenizer.eos_token_id"}
       THEN /\ exc' = <<direct_env.exc>>
            /\ UNCHANGED <<calls, output>>
       ELSE /\ calls' = Append(calls, Call("model.generate",
                                           <<inputs[1].input_ids>>,
                                           DirectGenKwargs(tokenizer[1].eos_token_id)))
            /\ IF direct_env.fail_at = "model.generate"
               THEN exc' = <<direct_env.exc>> /\ UNCHANGED output
               ELSE output' = <<direct_env.output>> /\ UNCHANGED exc
    /\ pc' = "L37_exit"
    /\ UNCHANGED <<out, events, grad_enabled, no_grad_prev, pipe, result, tokenizer,
                   model, inputs, generated_text, env_vars>>

\* a variant in which the gradient mode is not restored
RestoredGradStaysOff(prev) == FALSE
\* what torch.no_grad's exit sets the gradient mode to
RestoredGrad(prev) == prev

\* leaving the with block of line 37, normally or with an exception in flight:
\* the saved mode is restored and the exception, if any, goes on
use_direct_model_L37_exit ==
    /\ pc = "L37_exit"
    /\ grad_enabled' = RestoredGrad(no_grad_prev[1])
    /\ no_grad_prev' = <<>>
    /\ IF exc # <<>>
       THEN /\ events' = Append(events, Event("use_direct_model", "raise", exc))
            /\ pc' = "L63"
            /\ ClearLocals
       ELSE /\ pc' = "L47"
            /\ UNCHANGED <<events, locals>>
    /\ UNCHANGED <<out, calls, exc, env_vars>>

\* generated_text = tokenizer.decode(output[0], skip_special_tokens=True)
use_direct_model_L47 ==
    /\ pc = "L47"
    /\ IF Len(output[1]) = 0
       THEN Raise(IndexError) /\ UNCHANGED calls
       ELSE /\ calls' = Append(calls, Call("tokenizer.decode", <<output[1][1]>>,
                                           [skip_special_tokens |-> TRUE]))
            /\ IF direct_env.fail_at = "tokenizer.decode"
               THEN Raise(direct_env.exc)
               ELSE /\ generated_text' = <<direct_env.text>>
                    /\ pc' = "L48"
                    /\ UNCHANGED <<events, exc, pipe, result, tokenizer, model,
                                   inputs, output>>
    /\ UNCHANGED <<out, grad_enabled, no_grad_prev, env_vars>>

\* print("Eingabe:", prompt)
use_direct_model_L48 ==
    /\ pc = "L48"
    /\ print("Eingabe:" \o " " \o prompt)
    /\ pc' = "L49"
    /\ UNCHANGED <<calls, events, grad_enabled, no_grad_prev, exc, locals, env_vars>>

\* print("Generierte Antwort:", generated_text), and the runner returns
use_direct_model_L49 ==
    /\ pc = "L49"
    /\ print("Generierte Antwort:" \o " " \o generated_text[1])
    /\ events' = Append(events, Event("use_direct_model", "return", <<>>))
    /\ ClearLocals
    /\ pc' = "done"
    /\ UNCHANGED <<calls, grad_enabled, no_grad_prev, exc, env_vars>>

(***************************************************************************)
(* One execution of the script.                                            *)
(***************************************************************************)
Next ==
    \/ main_L53
    \/ main_L57
    \/ main_L58
    \/ main_L62
    \/ main_L63
    \/ use_pipeline_L6
    \/ use_pipeline_L10
    \/ use_pipeline_L13
    \/ use_pipeline_L16
    \/ use_pipeline_L17
    \/ use_pipeline_L18
    \/ use_direct_model_L26
    \/ use_direct_model_L29
    \/ use_direct_model_L30
    \/ use_direct_model_L34
    \/ use_direct_model_L37
    \/ use_direct_model_L38
    \/ use_direct_model_L37_exit
    \/ use_direct_model_L47
    \/ use_direct_model_L48
    \/ use_direct_model_L49

Spec == Init /\ [][Next]_vars

(***************************************************************************)
(* Two executions of the script, one after the other, in which the library *)
(* behaves the same way towards use_direct_model and in any way towards    *)
(* use_pipeline.  What use_direct_model did in the first is kept in saved. *)
(***************************************************************************)
IsDirect(c) == c.by = "use_direct_model"
IsDirectEvent(e) == e.who = "use_direct_model"

\* what use_direct_model did: its library calls with their arguments, the
\* lines it printed, and how its invocation went
DirectView ==
    [calls |-> SelectSeq(calls, IsDirect),
     out |-> SelectSeq(out, IsDirect),
     events |-> SelectSeq(events, IsDirectEvent)]

Finished == pc \in {"done", "raised"}

IsPipelineEnd(e) == e.who = "use_pipeline" /\ e.what \in {"return", "raise"}

\* how use_pipeline ended: "return", the class of the exception it raised, or
\* "none" while it has not ended
PipelineEnd ==
    LET ends == SelectSeq(events, IsPipelineEnd)
    IN  IF ends = <<>> THEN "none"
        ELSE IF ends[1].what = "return" THEN "return"
        ELSE ends[1].exc[1].cls

Rerun ==
    /\ Finished
    /\ round = 1
    /\ saved' = << [direct |-> DirectView, pipeline |-> PipelineEnd] >>
    /\ round' = 2
    /\ pipe_env' \in PipeEnvs
    /\ pc' = "L53"
    /\ out' = <<>>
    /\ calls' = <<>>
    /\ events' = <<>>
    /\ grad_enabled' = TRUE
    /\ no_grad_prev' = <<>>
    /\ exc' = <<>>
    /\ ClearLocals
    /\ UNCHANGED direct_env

NextPair ==
    \/ Next
    \/ Rerun

SpecPair == Init /\ [][NextPair]_vars

(***************************************************************************)
(* Properties.                                                             *)
(***************************************************************************)
Has(who, what) ==
    \E i \in DOMAIN events : events[i].who = who /\ events[i].what = what

IsPipelineLine(l) == l.by = "use_pipeline"
IsPipelineCall(c) == c.by = "use_pipeline"
IsPipelineInvocation(e) == e.who = "use_pipeline" /\ e.what = "call"
IsDirectInvocation(e) == e.who = "use_direct_model" /\ e.what = "call"

\* use_pipeline raised some exception / an instance of Exception
PipelineRaised == Has("use_pipeline", "raise")
PipelineRaisedException ==
    \E i \in DOMAIN events :
        /\ events[i].who = "use_pipeline"
        /\ events[i].what = "raise"
        /\ events[i].exc[1].cls = "Exception"

\* use_direct_model was invoked after use_pipeline raised
DirectInvokedAfterRaise ==
    \E i, j \in DOMAIN events :
        /\ i < j
        /\ events[i].who = "use_pipeline" /\ events[i].what = "raise"
        /\ events[j].who = "use_direct_model" /\ events[j].what = "call"

\* the entry point is on its way from the failed runner to the next one
OnTheWayToDirect == pc \in {"L58", "L62"} /\ ENABLED Next

\* C1 as stated: whatever exception use_pipeline raises, use_direct_model is
\* still invoked afterward.
C1_AnyExceptionIsolated ==
    PipelineRaised => (DirectInvokedAfterRaise \/ OnTheWayToDirect)

\* C1, amended: if use_pipeline raises an instance of Exception at any of its
\* steps (constructing the pipeline, invoking it, reading
\* result[0]['generated_text']), use_direct_model is still invoked afterward.
C1_ExceptionIsolated ==
    PipelineRaisedException => (DirectInvokedAfterRaise \/ OnTheWayToDirect)

\* use_pipeline raised while reading result[0]['generated_text'] and
\* use_direct_model was invoked after it
C1_Witness ==
    /\ pipe_env.fail_at = "none"
    /\ PipelineRaisedException
    /\ DirectInvokedAfterRaise

\* every exception a runner raised so far is an instance of Exception
OnlyExceptionInstances ==
    \A i \in DOMAIN events :
        events[i].what = "raise" => events[i].exc[1].cls = "Exception"

\* C2 as stated: for every combination of outcomes of the two runners the
\* entry point reaches its normal end and no exception propagates to its caller.
C2_NeverPropagates ==
    /\ pc # "raised"
    /\ pc = "done" \/ ENABLED Next

\* C2, amended: for every combination of outcomes in which each runner
\* succeeds or raises an instance of Exception (both raising included), the
\* entry point reaches its normal end and no exception propagates.
C2_ExceptionsNeverPropagate ==
    OnlyExceptionInstances =>
        /\ pc # "raised"
        /\ pc = "done" \/ ENABLED Next
        /\ pc = "done" => exc = <<>>

\* both runners raised and the script reached its normal end
C2_Witness ==
    /\ pc = "done"
    /\ Has("use_pipeline", "raise")
    /\ Has("use_direct_model", "raise")

\* the runner invocations so far are an initial part of: use_pipeline called,
\* use_pipeline ended, use_direct_model called, use_direct_model ended
EventShape ==
    /\ Len(events) <= 4
    /\ \A i \in DOMAIN events :
        /\ i = 1 => events[i].who = "use_pipeline" /\ events[i].what = "call"
        /\ i = 2 => /\ events[i].who = "use_pipeline"
                    /\ events[i].what \in {"return", "raise"}
        /\ i = 3 => events[i].who = "use_direct_model" /\ events[i].what = "call"
        /\ i = 4 => /\ events[i].who = "use_direct_model"
                    /\ events[i].what \in {"return", "raise"}
    /\ \A i, j \in DOMAIN calls :
        (calls[i].by = "use_direct_model" /\ calls[j].by = "use_pipeline") => j < i

\* C3 as stated: use_pipeline first, use_direct_model only after it has
\* finished, and in every execution each runner is invoked exactly once.
C3_EachExactlyOnce ==
    /\ EventShape
    /\ Finished =>
        /\ Len(SelectSeq(events, IsPipelineInvocation)) = 1
        /\ Len(SelectSeq(events, IsDirectInvocation)) = 1

\* C3, amended: use_pipeline first, use_direct_model only after it has
\* finished, no runner is invoked twice; use_pipeline is invoked exactly once,
\* and use_direct_model exactly once when use_pipeline returned or raised an
\* instance of Exception and not at all when it raised anything else.
C3_OrderNoRetry ==
    /\ EventShape
    /\ Finished =>
        /\ Len(SelectSeq(events, IsPipelineInvocation)) = 1
        /\ Len(SelectSeq(events, IsDirectInvocation)) =
               IF PipelineEnd \in {"return", "Exception"} THEN 1 ELSE 0

\* use_pipeline failed, use_direct_model ran after it, nothing ran twice
C3_Witness ==
    /\ Finished
    /\ PipelineRaisedException
    /\ Len(events) = 4

IsGenerate(c) == c.fn = "model.generate"

\* C4: model.generate is called once, with the input ids the tokenizer gave
\* for "Who are you?" and exactly max_length=100, do_sample=True,
\* temperature=0.7, pad_token_id=<the tokenizer's eos_token_id>: the pipeline
\* call's parameters plus pad_token_id.
C4_GenerateParameters ==
    /\ Len(SelectSeq(calls, IsGenerate)) <= 1
    /\ Has("use_direct_model", "return") => Len(SelectSeq(calls, IsGenerate)) = 1
    /\ \A i \in DOMAIN calls :
        calls[i].fn = "model.generate" =>
            /\ calls[i].by = "use_direct_model"
            /\ calls[i].args = <<direct_env.input_ids>>
            /\ calls[i].kwargs = [max_length |-> 100, do_sample |-> TRUE,
                                  temperature |-> "0.7",
                                  pad_token_id |-> direct_env.eos]
            /\ \E j \in 1..(i - 1) :
                /\ calls[j].fn = "tokenizer"
                /\ calls[j].args = <<"Who are you?">>
    /\ \A i, j \in DOMAIN calls :
        (calls[i].fn = "pipe" /\ calls[j].fn = "model.generate") =>
            /\ calls[i].kwargs = [max_length |-> 100, do_sample |-> TRUE,
                                  temperature |-> "0.7"]
            /\ DOMAIN calls[j].kwargs = DOMAIN calls[i].kwargs \cup {"pad_token_id"}
            /\ \A k \in DOMAIN calls[i].kwargs :
                calls[j].kwargs[k] = calls[i].kwargs[k]

\* both runners made their generation call, the tokenizer's eos id not 0
C4_Witness ==
    /\ Has("use_direct_model", "return")
    /\ direct_env.eos > 0
    /\ \E i, j \in DOMAIN calls :
        calls[i].fn = "pipe" /\ calls[j].fn = "model.generate"

\* C5: what use_pipeline prints after "Ergebnis:" is the 'generated_text' of
\* the first element of the result (as print shows it: a str verbatim), and no
\* other candidate's text is printed.
C5_FirstCandidatePrinted ==
    LET lines == SelectSeq(out, IsPipelineLine)
        first == pipe_env.result[1].generated_text
    IN  /\ \A i \in DOMAIN lines :
            (lines[i].text = "Ergebnis:" /\ i < Len(lines)) =>
                /\ Len(pipe_env.result) >= 1
                /\ lines[i + 1].text = Str(first)
                /\ first.type = "str" => lines[i + 1].text = first.val
        /\ Has("use_pipeline", "return") =>
            /\ Len(lines) = 4
            /\ lines[1].text = "=== Pipeline-Ansatz ==="
            /\ lines[2].text = "Ergebnis:"
            /\ lines[3].text = Str(first)
            /\ lines[4].text = "\n"
        /\ ( /\ pipe_env.fail_at = "none"
             /\ Len(pipe_env.result) >= 1
             /\ "generated_text" \in DOMAIN pipe_env.result[1]
             /\ PipelineEnd # "none" ) => PipelineEnd = "return"

\* a result of two candidates with different texts was printed
C5_Witness ==
    /\ Has("use_pipeline", "return")
    /\ Len(pipe_env.result) = 2
    /\ "generated_text" \in DOMAIN pipe_env.result[2]
    /\ pipe_env.result[1] # pipe_env.result[2]

IsLoad(c) ==
    c.fn \in {"pipeline", "AutoTokenizer.from_pretrained",
              "AutoModelForCausalLM.from_pretrained"}

\* the model identifier a loading call was given
ModelIdOf(c) == IF c.fn = "pipeline" THEN c.kwargs.model ELSE c.args[1]

\* C6: every model-loading call names the same model,
\* "unsloth/DeepSeek-R1-Distill-Llama-8B".
C6_SameModelId ==
    \A i \in DOMAIN calls :
        IsLoad(calls[i]) =>
            ModelIdOf(calls[i]) = "unsloth/DeepSeek-R1-Distill-Llama-8B"

\* all three loading calls were made
C6_Witness == Len(SelectSeq(calls, IsLoad)) = 3

\* who made a call of fn
CallMade(who, fn) ==
    \E i \in DOMAIN calls : calls[i].by = who /\ calls[i].fn = fn

\* the last library call a runner made
LastCallOf(who) ==
    LET mine == SelectSeq(calls, LAMBDA c : c.by = who)
    IN  mine[Len(mine)].fn

\* the lines a runner printed
LinesOf(who) == SelectSeq(out, LAMBDA l : l.by = who)

\* a library call of use_pipeline raised: the exception went to the caller,
\* no later step ran, no "Ergebnis:" line was printed
PipelineNoRecovery ==
    ( /\ pipe_env.fail_at \in {"pipeline", "pipe"}
      /\ CallMade("use_pipeline", pipe_env.fail_at) ) =>
        /\ LastCallOf("use_pipeline") = pipe_env.fail_at
        /\ \E i \in DOMAIN events :
               events[i] = Event("use_pipeline", "raise", <<pipe_env.exc>>)
        /\ ~Has("use_pipeline", "return")
        /\ pc \notin {"L6", "L10", "L13", "L16", "L17", "L18"}
        /\ pc = "L58" => exc = <<pipe_env.exc>>
        /\ \A i \in DOMAIN LinesOf("use_pipeline") :
               LinesOf("use_pipeline")[i].text = "=== Pipeline-Ansatz ==="

\* the same for use_direct_model; an exception of model.generate passes the
\* exit of the with block on its way out
DirectNoRecovery ==
    ( /\ direct_env.fail_at \in {"AutoTokenizer.from_pretrained",
                                 "AutoModelForCausalLM.from_pretrained",
                                 "tokenizer", "model.generate", "tokenizer.decode"}
      /\ CallMade("use_direct_model", direct_env.fail_at) ) =>
        /\ LastCallOf("use_direct_model") = direct_env.fail_at
        /\ \/ pc = "L37_exit" /\ exc = <<direct_env.exc>>
           \/ \E i \in DOMAIN events :
                  events[i] = Event("use_direct_model", "raise", <<direct_env.exc>>)
        /\ ~Has("use_direct_model", "return")
        /\ pc \notin {"L26", "L29", "L30", "L34", "L37", "L38", "L47", "L48", "L49"}
        /\ pc = "L63" => exc = <<direct_env.exc>>
        /\ \A i \in DOMAIN LinesOf("use_direct_model") :
               LinesOf("use_direct_model")[i].text = "=== Direkter Modell-Ansatz ==="

\* C7: a runner performs no recovery: when one of its library calls raises,
\* the exception leaves the runner to its caller, none of the runner's later
\* steps execute and it prints no "Ergebnis:" / "Generierte Antwort:" line.
C7_NoRecoveryInRunner == PipelineNoRecovery /\ DirectNoRecovery

\* tokenizer.decode raised and the exception is at the entry point's handler
C7_Witness ==
    /\ pc = "L63"
    /\ direct_env.fail_at = "tokenizer.decode"
    /\ CallMade("use_direct_model", "tokenizer.decode")
    /\ exc = <<direct_env.exc>>

\* every exception a runner can raise
AllExcs == Excs \cup {IndexError, KeyError}

IsPipelineFailureLine(l) ==
    l.text \in { "Fehler beim Pipeline-Ansatz: " \o e.msg : e \in AllExcs }
IsDirectFailureLine(l) ==
    l.text \in { "Fehler beim direkten Modell-Ansatz: " \o e.msg : e \in AllExcs }

RaisedBy(who) == Has(who, "raise")

\* the exception a runner raised was an instance of Exception
RaisedExceptionBy(who) ==
    \E i \in DOMAIN events :
        /\ events[i].who = who
        /\ events[i].what = "raise"
        /\ events[i].exc[1].cls = "Exception"

\* C8 as stated: a runner's failure message is printed exactly once if that
\* runner raised, and not at all otherwise.
C8_MessageIffRaised ==
    Finished =>
        /\ Len(SelectSeq(out, IsPipelineFailureLine)) =
               IF RaisedBy("use_pipeline") THEN 1 ELSE 0
        /\ Len(SelectSeq(out, IsDirectFailureLine)) =
               IF RaisedBy("use_direct_model") THEN 1 ELSE 0

\* C8, amended: a runner's failure message is printed, once, at the top level,
\* with that runner's own prefix and the exception's text, if and only if that
\* runner raised an instance of Exception; a failure never produces the other
\* runner's message.
C8_MessageIffExceptionRaised ==
    /\ \A i \in DOMAIN out :
        /\ IsPipelineFailureLine(out[i]) =>
            /\ out[i].by = "main"
            /\ \E j \in DOMAIN events :
                /\ events[j].who = "use_pipeline" /\ events[j].what = "raise"
                /\ events[j].exc[1].cls = "Exception"
                /\ out[i].text = "Fehler beim Pipeline-Ansatz: " \o events[j].exc[1].msg
        /\ IsDirectFailureLine(out[i]) =>
            /\ out[i].by = "main"
            /\ \E j \in DOMAIN events :
                /\ events[j].who = "use_direct_model" /\ events[j].what = "raise"
                /\ events[j].exc[1].cls = "Exception"
                /\ out[i].text =
                       "Fehler beim direkten Modell-Ansatz: " \o events[j].exc[1].msg
    /\ Len(SelectSeq(out, IsPipelineFailureLine)) <= 1
    /\ Len(SelectSeq(out, IsDirectFailureLine)) <= 1
    /\ Finished =>
        /\ Len(SelectSeq(out, IsPipelineFailureLine)) =
               IF RaisedExceptionBy("use_pipeline") THEN 1 ELSE 0
        /\ Len(SelectSeq(out, IsDirectFailureLine)) =
               IF RaisedExceptionBy("use_direct_model") THEN 1 ELSE 0

\* both runners failed, each with its own exception, and both were reported
C8_Witness ==
    /\ Finished
    /\ Len(SelectSeq(out, IsPipelineFailureLine)) = 1
    /\ Len(SelectSeq(out, IsDirectFailureLine)) = 1
    /\ pipe_env.exc.msg # direct_env.exc.msg
    /\ pipe_env.fail_at # "none"
    /\ direct_env.fail_at # "none"

DirectCallOrder ==
    <<"AutoTokenizer.from_pretrained", "AutoModelForCausalLM.from_pretrained",
      "tokenizer", "model.generate", "tokenizer.decode">>

\* C9: use_direct_model loads the tokenizer, loads the model, encodes,
\* generates, decodes and prints, in this order; generate runs with gradient
\* tracking disabled, and tracking is enabled again before decode and whenever
\* the runner has finished, also when generate raised.
C9_DirectOrderAndNoGrad ==
    LET dc == SelectSeq(calls, IsDirect)
        lines == SelectSeq(out, IsDirect)
    IN  /\ Len(dc) <= 5
        /\ \A i \in DOMAIN dc : dc[i].fn = DirectCallOrder[i]
        /\ Len(lines) >= 2 => Len(dc) = 5
        /\ Len(lines) >= 2 => lines[2].text = "Eingabe: Who are you?"
        /\ Len(lines) >= 3 =>
               lines[3].text = "Generierte Antwort: " \o direct_env.text
        /\ Len(lines) <= 3
        /\ \A i \in DOMAIN dc :
            /\ dc[i].fn = "model.generate" => dc[i].grad = FALSE
            /\ dc[i].fn # "model.generate" => dc[i].grad = TRUE
        /\ grad_enabled = FALSE => pc \in {"L38", "L37_exit"}
        /\ (Has("use_direct_model", "return") \/ Has("use_direct_model", "raise"))
               => grad_enabled = TRUE

\* model.generate raised and the runner has finished
C9_Witness ==
    /\ pc = "L63"
    /\ direct_env.fail_at = "model.generate"
    /\ CallMade("use_direct_model", "model.generate")

\* C10 as stated: what use_direct_model does is the same in two executions
\* that differ only in the outcome of use_pipeline, whatever that outcome is.
C10_SameForAnyPipelineOutcome ==
    (round = 2 /\ Finished) => DirectView = saved[1].direct

\* C10, amended: what use_direct_model does (its library calls, their
\* arguments, what it prints) is the same in two executions that differ only
\* in the outcome of use_pipeline, when that outcome is a return with any
\* result or an instance of Exception raised at any step.
C10_SameForCaughtPipelineOutcome ==
    ( /\ round = 2
      /\ Finished
      /\ saved[1].pipeline \in {"return", "Exception"}
      /\ PipelineEnd \in {"return", "Exception"} ) =>
        DirectView = saved[1].direct

\* use_pipeline failed in the first execution and returned in the second, and
\* use_direct_model ran to its end
C10_Witness ==
    /\ round = 2
    /\ Finished
    /\ saved[1].pipeline = "Exception"
    /\ PipelineEnd = "return"
    /\ Has("use_direct_model", "return")
    /\ DirectView = saved[1].direct

====
